---- MODULE Spec2Model ----
(***************************************************************************)
(* Authentication and session-validity state machine of the filehost app:  *)
(* the before-request gate (app.py _before_request), the auth route        *)
(* handlers and the user directory they read and write (database.py).      *)
(*                                                                         *)
(* A request of one client is one atomic step (gate, then route handler);  *)
(* its response is in flight until Deliver hands it to the client.         *)
(* Spec: one client at a time, two accounts.  SpecConc: two clients that   *)
(* contend for one account, with the registration POST cut between its     *)
(* email lookup and its insert so that two registrations can interleave.   *)
(* SpecStored, SpecOutage, SpecIntruder: one client against a store that   *)
(* already holds an account.  SpecRedirect: any cookie, and a client that  *)
(* follows the redirects it is sent.                                       *)
(***************************************************************************)
EXTENDS Integers, Sequences, FiniteSets, TLC

VARIABLES
    database,   \* the users table: [users: id -> row, nextId: next serial id]
    sessions,   \* client -> the session dict carried by the client's cookie
    debug,      \* config.debug / app.debug, fixed at start-up
    inflight,   \* client -> a registration POST between lookup and insert
    last,       \* the request just served (client, endpoint, method, the session
                \* cookie it carried) and its response, until delivered
    storeUp     \* the connection to the store answers queries

vars == <<database, sessions, debug, inflight, last, storeUp>>

----------------------------------------------------------------------------
(* Bounds of the model *)

MaxUsers == 2       \* rows ever inserted into the users table
MaxDrift == 2       \* submitted codes are up to MaxDrift time steps off

Clients == {"c1", "c2"}
Emails == {"a@x", "b@x"}
Passwords == {"pw1"}
Usernames == {"alice"}
Keys == {"KEYA", "KEYB"}            \* values otpKey() returns at enrollment
ResetCodes == {"RESETCODE"}         \* values otpKey() returns at password reset
Drifts == (0 - MaxDrift) .. MaxDrift

----------------------------------------------------------------------------
(* Strings, dicts and responses *)

NULL == "<NULL>"                     \* SQL NULL / Python None in a text column
DebugCode == "123456"                \* the code app.debug accepts at enrollment
WrongCode == "000000"                \* a six-digit code no key produces
WrongPassword == "guess"             \* a password no user registered

EmptySession == << >>

\* data[k] = v on a dict
SetKey(data, k, v) == [x \in (DOMAIN data) \cup {k} |-> IF x = k THEN v ELSE data[x]]

\* faulty variant of pop: reads the key and leaves it in the dict (data.get)
PopKeyLeaves(data, k) == data

\* data.pop(k) on a dict
PopKey(data, k) == [x \in (DOMAIN data) \ {k} |-> data[x]]

\* len(data) of a dict
DictLen(data) == Cardinality(DOMAIN data)

NoResponse == [kind |-> "none", target |-> "", error |-> ""]
Redirect(endpoint) == [kind |-> "redirect", target |-> endpoint, error |-> ""]
RedirectWith(endpoint, condition) == [kind |-> "redirect", target |-> endpoint, error |-> condition]
Render(template) == [kind |-> "render", target |-> template, error |-> ""]
RenderError(template, error) == [kind |-> "render", target |-> template, error |-> error]
\* an exception that leaves the view: Flask answers with an HTTP error status
HttpError(status, exception) == [kind |-> "error", target |-> status, error |-> exception]

----------------------------------------------------------------------------
(* Credential store: passlib pbkdf2_sha512 and pyotp TOTP *)

\* hashing.hash(plaintext): the stored text is not the plaintext
HashPassword(plaintext) == "$pbkdf2-sha512$" \o plaintext

\* faulty variant of checkPassword: accepts every password
VerifyPasswordAny(password, hash) == TRUE

\* hashing.verify(password, hash)
VerifyPassword(password, hash) == HashPassword(password) = hash

\* TOTP(key).at(now + d): the code of key for the time step d steps from
\* the one in which the request is served (taken to be injective)
Code(key, d) == "otp:" \o key \o ":" \o ToString(d)

\* faulty variant of verify: the window of one step whatever the caller asks
TotpVerifyWindowOne(key, otp, w) == \E d \in (0 - 1) .. 1 : otp = Code(key, d)

\* faulty variant of verify: compares with the code of the previous step
TotpVerifyPreviousStep(key, otp, w) == otp = Code(key, 0 - 1)

\* TOTP(key).verify(otp, valid_window=w)
TotpVerify(key, otp, w) == \E d \in (0 - w) .. w : otp = Code(key, d)

----------------------------------------------------------------------------
(* User directory *)

\* faulty variant of User.banned: tests the wrong access level
BannedWrongLevel(user) == user.accessLevel = 1

\* User.banned
Banned(user) == user.accessLevel = -1

\* Database.checkUserExists
CheckUserExists(db, id) == id \in DOMAIN db.users

\* Database.getUser, for an id that exists
GetUser(db, id) == db.users[id]

\* Database.getUserByEmail: the ids of the rows with that email ({} is None)
GetUserByEmail(db, email) == {i \in DOMAIN db.users : db.users[i].email = email}

\* faulty variant of setUserOtpKey: an UPDATE without its WHERE clause
SetUserOtpKeyEveryRow(db, id, key) ==
    [db EXCEPT !.users = [i \in DOMAIN db.users |-> [db.users[i] EXCEPT !.otp = key]]]

\* Database.setUserOtpKey
SetUserOtpKey(db, id, key) ==
    [db EXCEPT !.users = [i \in DOMAIN db.users |->
        IF i = id THEN [db.users[i] EXCEPT !.otp = key] ELSE db.users[i]]]

\* faulty variant of setUserLastOtp: an UPDATE without its WHERE clause
SetUserLastOtpEveryRow(db, id, code) ==
    [db EXCEPT !.users = [i \in DOMAIN db.users |-> [db.users[i] EXCEPT !.lastOtp = code]]]

\* Database.setUserLastOtp
SetUserLastOtp(db, id, code) ==
    [db EXCEPT !.users = [i \in DOMAIN db.users |->
        IF i = id THEN [db.users[i] EXCEPT !.lastOtp = code] ELSE db.users[i]]]

\* the columns the INSERT of addUser leaves to the table's defaults
NewUserDefaults == [accessLevel |-> 0, otp |-> "", lastOtp |-> NULL]

\* the email-uniqueness constraint of the users table
EmailTaken(db, email) == GetUserByEmail(db, email) # {}

\* Database.addUser, for an email the table does not hold yet
AddUser(db, username, plaintextPassword, email) ==
    [users |-> [i \in (DOMAIN db.users) \cup {db.nextId} |->
                   IF i = db.nextId
                   THEN [email |-> email,
                         password |-> HashPassword(plaintextPassword),
                         username |-> username,
                         accessLevel |-> NewUserDefaults.accessLevel,
                         otp |-> NewUserDefaults.otp,
                         lastOtp |-> NewUserDefaults.lastOtp]
                   ELSE db.users[i]],
     nextId |-> db.nextId + 1]

----------------------------------------------------------------------------
(* Helpers of app.py *)

\* faulty variant of _cookieCheck: no cookie is taken as that of a signed-in
\* user
CookieCheckAlwaysNone(data) == "None"

\* _cookieCheck
CookieCheck(data) == IF DictLen(data) = 0 THEN "None" ELSE "Valid"

\* _canAdd2fa
CanAdd2fa(data) == "2fa" \notin DOMAIN data \/ ~data["2fa"]

\* the test of _verifyForm on one field
FieldMissing(form, field) == field \notin DOMAIN form \/ form[field] = ""

RECURSIVE FirstMissing(_, _, _)
\* the loop of _verifyForm: the index of the first missing field, or -1
FirstMissing(form, fields, number) ==
    IF number >= Len(fields) THEN -1
    ELSE IF FieldMissing(form, fields[number + 1]) THEN number
    ELSE FirstMissing(form, fields, number + 1)

\* faulty variant of _verifyForm: counts the fields from one
\* (enumerate(fields, 1))
VerifyFormCountsFromOne(form, fields) ==
    IF FirstMissing(form, fields, 0) >= 0
    THEN [valid |-> FALSE,
          error |-> "Missing field: " \o fields[FirstMissing(form, fields, 0) + 1],
          number |-> FirstMissing(form, fields, 0) + 1]
    ELSE [valid |-> TRUE, error |-> "", number |-> 0]

\* _verifyForm: (formValid, formError, errorNumber)
VerifyForm(form, fields) ==
    LET number == FirstMissing(form, fields, 0) IN
    IF number >= 0
    THEN [valid |-> FALSE, error |-> "Missing field: " \o fields[number + 1], number |-> number]
    ELSE [valid |-> TRUE, error |-> "", number |-> 0]

----------------------------------------------------------------------------
(* The gate *)

\* faulty variant of _before_request: without the test of an empty otpKey
BeforeRequestNoEnrollmentCheck(session, endpoint, db) ==
    IF endpoint = "static"
    THEN [session |-> session, response |-> NoResponse]
    ELSE IF DictLen(session) <= 0 \/ "id" \notin DOMAIN session
            \/ ~CheckUserExists(db, session["id"])
    THEN [session |-> EmptySession, response |-> NoResponse]
    ELSE IF "2fa" \notin DOMAIN session
    THEN [session |-> SetKey(session, "2fa", FALSE),
          response |-> Redirect("auth._auth_add_2fa")]
    ELSE IF Banned(db.users[session["id"]])
    THEN [session |-> EmptySession,
          response |-> RedirectWith("auth._auth_logout", "Banned")]
    ELSE [session |-> session, response |-> NoResponse]

\* faulty variant of _before_request: an invalid session is let through
\* without session.clear()
BeforeRequestKeepsStale(session, endpoint, db) ==
    IF endpoint = "static"
    THEN [session |-> session, response |-> NoResponse]
    ELSE IF DictLen(session) <= 0 \/ "id" \notin DOMAIN session
            \/ ~CheckUserExists(db, session["id"])
    THEN [session |-> session, response |-> NoResponse]
    ELSE IF "2fa" \notin DOMAIN session
    THEN [session |-> SetKey(session, "2fa", FALSE),
          response |-> Redirect("auth._auth_add_2fa")]
    ELSE IF Banned(db.users[session["id"]])
    THEN [session |-> EmptySession,
          response |-> RedirectWith("auth._auth_logout", "Banned")]
    ELSE IF db.users[session["id"]].otp = ""
    THEN [session |-> SetKey(session, "2fa", FALSE),
          response |-> IF endpoint # "auth._auth_add_2fa"
                       THEN Redirect("auth._auth_add_2fa")
                       ELSE NoResponse]
    ELSE [session |-> session, response |-> NoResponse]

\* faulty variant of _before_request: the redirect for an empty otpKey is
\* returned for the enrollment endpoint too
BeforeRequestAlwaysRedirects(session, endpoint, db) ==
    IF endpoint = "static"
    THEN [session |-> session, response |-> NoResponse]
    ELSE IF DictLen(session) <= 0 \/ "id" \notin DOMAIN session
            \/ ~CheckUserExists(db, session["id"])
    THEN [session |-> EmptySession, response |-> NoResponse]
    ELSE IF "2fa" \notin DOMAIN session
    THEN [session |-> SetKey(session, "2fa", FALSE),
          response |-> Redirect("auth._auth_add_2fa")]
    ELSE IF Banned(db.users[session["id"]])
    THEN [session |-> EmptySession,
          response |-> RedirectWith("auth._auth_logout", "Banned")]
    ELSE IF db.users[session["id"]].otp = ""
    THEN [session |-> SetKey(session, "2fa", FALSE),
          response |-> Redirect("auth._auth_add_2fa")]
    ELSE [session |-> session, response |-> NoResponse]

\* _before_request: the session it leaves and the response it returns
\* (NoResponse: the route handler runs)
BeforeRequest(session, endpoint, db) ==
    IF endpoint = "static"
    THEN [session |-> session, response |-> NoResponse]
    ELSE IF DictLen(session) <= 0 \/ "id" \notin DOMAIN session
            \/ ~CheckUserExists(db, session["id"])
    THEN [session |-> EmptySession, response |-> NoResponse]
    ELSE IF "2fa" \notin DOMAIN session
    THEN [session |-> SetKey(session, "2fa", FALSE),
          response |-> Redirect("auth._auth_add_2fa")]
    ELSE LET user == GetUser(db, session["id"]) IN
         IF Banned(user)
         THEN [session |-> EmptySession,
               response |-> RedirectWith("auth._auth_logout", "Banned")]
         ELSE IF user.otp = ""
         THEN [session |-> SetKey(session, "2fa", FALSE),
               response |-> IF endpoint # "auth._auth_add_2fa"
                            THEN Redirect("auth._auth_add_2fa")
                            ELSE NoResponse]
         ELSE [session |-> session, response |-> NoResponse]

----------------------------------------------------------------------------
(* Route handlers: each gives the session and the users table it leaves and *)
(* the response it returns                                                  *)

Result(session, db, response) ==
    [session |-> session, database |-> db, response |-> response]

\* _info_index
InfoIndex(session, db) == Result(session, db, Render("info/index.html"))

\* faulty variant of _auth_login: the code is verified but not compared
\* with lastOtp
AuthLoginNoReplayGuard(session, method, form, db) ==
    IF CookieCheck(session) = "Valid"
    THEN Result(session, db, Redirect("info._info_index"))
    ELSE IF method = "GET"
    THEN Result(session, db, Render("auth/login.html"))
    ELSE IF ~VerifyForm(form, <<"email", "password", "2fa">>).valid
            /\ VerifyForm(form, <<"email", "password", "2fa">>).number # 2
    THEN Result(session, db,
                RenderError("auth/login.html",
                            VerifyForm(form, <<"email", "password", "2fa">>).error))
    ELSE IF \A i \in DOMAIN db.users : db.users[i].email # form["email"]
    THEN Result(session, db, RenderError("auth/login.html", "Invalid Email"))
    ELSE LET id == CHOOSE i \in DOMAIN db.users : db.users[i].email = form["email"]
             user == db.users[id] IN
    IF user.otp = "" /\ ~VerifyForm(form, <<"email", "password", "2fa">>).valid
    THEN Result(SetKey(SetKey(session, "id", id), "2fa", FALSE), db,
                Redirect("auth._auth_add_2fa"))
    ELSE IF ~VerifyPassword(form["password"], user.password)
    THEN Result(session, db, RenderError("auth/login.html", "Invalid Password"))
    ELSE IF user.accessLevel = -1
    THEN Result(session, db, RenderError("auth/login.html", "Banned"))
    ELSE IF "2fa" \notin DOMAIN form
    THEN Result(session, db, HttpError("400", "BadRequestKeyError"))
    ELSE IF \A d \in {0} : form["2fa"] # Code(user.otp, d)
    THEN Result(session, db, RenderError("auth/login.html", "Invalid 2FA"))
    ELSE Result(SetKey(SetKey(session, "id", id), "2fa", TRUE), db,
                Redirect("info._info_index"))

\* _auth_login
AuthLogin(session, method, form, db) ==
    IF CookieCheck(session) = "Valid"
    THEN Result(session, db, Redirect("info._info_index"))
    ELSE IF method = "GET"
    THEN Result(session, db, Render("auth/login.html"))
    ELSE LET v == VerifyForm(form, <<"email", "password", "2fa">>) IN
    IF ~v.valid /\ v.number # 2
    THEN Result(session, db, RenderError("auth/login.html", v.error))
    ELSE LET found == GetUserByEmail(db, form["email"]) IN
    IF found = {}
    THEN Result(session, db, RenderError("auth/login.html", "Invalid Email"))
    ELSE LET id == CHOOSE i \in found : TRUE
             user == GetUser(db, id) IN
    IF user.otp = "" /\ v.number = 2
    THEN Result(SetKey(SetKey(session, "id", id), "2fa", FALSE), db,
                Redirect("auth._auth_add_2fa"))
    ELSE IF ~VerifyPassword(form["password"], user.password)
    THEN Result(session, db, RenderError("auth/login.html", "Invalid Password"))
    ELSE IF Banned(user)
    THEN Result(session, db, RenderError("auth/login.html", "Banned"))
    ELSE IF "2fa" \notin DOMAIN form
    THEN \* request.form["2fa"] of an absent field: werkzeug's BadRequestKeyError
         \* (HTTP 400; Flask re-raises it as a server error when app.debug)
         Result(session, db, HttpError("400", "BadRequestKeyError"))
    ELSE IF ~TotpVerify(user.otp, form["2fa"], 0) \/ user.lastOtp = form["2fa"]
    THEN Result(session, db, RenderError("auth/login.html", "Invalid 2FA"))
    ELSE Result(SetKey(SetKey(session, "id", id), "2fa", TRUE), db,
                Redirect("info._info_index"))

\* faulty variant of _auth_register: without the lookup of the email
AuthRegisterCheckNoLookup(session, method, form, db) ==
    IF CookieCheck(session) = "Valid"
    THEN Redirect("info._info_index")
    ELSE IF method = "GET"
    THEN Render("auth/register.html")
    ELSE IF ~VerifyForm(form, <<"email", "password", "confirm-password", "username">>).valid
    THEN RenderError("auth/register.html",
                     VerifyForm(form, <<"email", "password", "confirm-password", "username">>).error)
    ELSE IF form["password"] # form["confirm-password"]
    THEN HttpError("500", "TypeError")
    ELSE NoResponse

\* _auth_register up to the email lookup: the response, or NoResponse when
\* the handler goes on to insert
AuthRegisterCheck(session, method, form, db) ==
    IF CookieCheck(session) = "Valid"
    THEN Redirect("info._info_index")
    ELSE IF method = "GET"
    THEN Render("auth/register.html")
    ELSE LET v == VerifyForm(form, <<"email", "password", "confirm-password", "username">>) IN
    IF ~v.valid
    THEN RenderError("auth/register.html", v.error)
    ELSE IF form["password"] # form["confirm-password"]
    THEN \* del request.form[...]: request.form is an ImmutableMultiDict
         HttpError("500", "TypeError")
    ELSE IF GetUserByEmail(db, form["email"]) # {}
    THEN RenderError("auth/register.html", "Email already in use")
    ELSE NoResponse

\* faulty variant of the end of _auth_register: signs in as _auth_login
\* does for a user without otpKey, writing "2fa" too
AuthRegisterInsertWrites2fa(session, form, db) ==
    IF EmailTaken(db, form["email"])
    THEN Result(session, db, HttpError("500", "UniqueViolation"))
    ELSE Result(SetKey(SetKey(session, "id", db.nextId), "2fa", FALSE),
                AddUser(db, form["username"], form["password"], form["email"]),
                Redirect("auth._auth_add_2fa"))

\* _auth_register from addUser on
AuthRegisterInsert(session, form, db) ==
    IF EmailTaken(db, form["email"])
    THEN \* the INSERT violates the constraint; nothing catches the exception
         Result(session, db, HttpError("500", "UniqueViolation"))
    ELSE LET added == AddUser(db, form["username"], form["password"], form["email"])
             id == CHOOSE i \in GetUserByEmail(added, form["email"]) : TRUE IN
         Result(SetKey(session, "id", id), added, Redirect("auth._auth_add_2fa"))

\* _auth_register
AuthRegister(session, method, form, db) ==
    LET checked == AuthRegisterCheck(session, method, form, db) IN
    IF checked.kind # "none"
    THEN Result(session, db, checked)
    ELSE AuthRegisterInsert(session, form, db)

\* _auth_add_2fa; key is the value otpKey() returns on a GET (a POST draws none)
AuthAdd2fa(session, method, form, db, dbg, key) ==
    IF ~CanAdd2fa(session)
    THEN Result(session, db, Redirect("auth._auth_login"))
    ELSE IF method = "GET"
    THEN IF "id" \notin DOMAIN session
         THEN Result(session, db, HttpError("500", "KeyError"))
         ELSE IF ~CheckUserExists(db, session["id"])
         THEN Result(session, db, HttpError("500", "AttributeError"))
         ELSE Result(SetKey(session, "2faKey", key), db, Render("auth/2fa_add.html"))
    ELSE LET v == VerifyForm(form, <<"2fa">>) IN
    IF ~v.valid
    THEN Result(session, db, RenderError("auth/2fa_add.html", v.error))
    ELSE IF "2faKey" \notin DOMAIN session
    THEN Result(session, db, HttpError("500", "KeyError"))
    ELSE IF (~TotpVerify(session["2faKey"], form["2fa"], 1))
            /\ (dbg /\ form["2fa"] # DebugCode)
    THEN Result(session, db, RenderError("auth/2fa_add.html", "Invalid 2FA"))
    ELSE IF "id" \notin DOMAIN session
    THEN Result(session, db, HttpError("500", "KeyError"))
    ELSE Result(PopKey(SetKey(session, "2fa", TRUE), "2faKey"),
                SetUserOtpKey(db, session["id"], session["2faKey"]),
                Redirect("info._info_index"))

\* _auth_password_reset; code is the value otpKey() returns on a POST
AuthPasswordReset(session, method, form, db, code) ==
    IF CookieCheck(session) = "Valid"
    THEN Result(session, db, Redirect("info._info_index"))
    ELSE IF method = "GET"
    THEN Result(session, db, Render("auth/password_reset.html"))
    ELSE LET v == VerifyForm(form, <<"email">>) IN
    IF ~v.valid
    THEN Result(session, db, RenderError("auth/password_reset.html", v.error))
    ELSE LET found == GetUserByEmail(db, form["email"]) IN
    IF found = {}
    THEN Result(session, db, RenderError("auth/password_reset.html", "Invalid Email"))
    ELSE \* the view ends without a return value: Flask raises TypeError
         Result(session, SetUserLastOtp(db, CHOOSE i \in found : TRUE, code),
                HttpError("500", "TypeError"))

\* the messages _auth_password_reset hands to the Emailer: none, the call
\* of sendVerificationEmail is commented out and app.py creates no Emailer
PasswordResetMail(session, method, form, db, code) == {}

\* _auth_logout
AuthLogout(session, db) == Result(EmptySession, db, Render("auth/logout.html"))

\* _files_upload; hasFile: "file" in request.files
FilesUpload(session, method, hasFile, db) ==
    IF CookieCheck(session) = "None"
    THEN Result(session, db, Redirect("auth._auth_login"))
    ELSE IF method = "GET"
    THEN Result(session, db, Render("files/upload.html"))
    ELSE IF ~hasFile
    THEN Result(session, db, RenderError("files/upload.html", "No file uploaded"))
    ELSE \* the view ends without a return value: Flask raises TypeError
         Result(session, db, HttpError("500", "TypeError"))

\* _files_upload_bulk; hasFiles: "files" in request.files
FilesUploadBulk(session, method, hasFiles, db) ==
    IF CookieCheck(session) = "None"
    THEN Result(session, db, Redirect("auth._auth_login"))
    ELSE IF method = "GET"
    THEN Result(session, db, Render("files/upload.html"))
    ELSE IF ~hasFiles
    THEN Result(session, db, RenderError("files/upload.html", "No files uploaded"))
    ELSE \* the view ends without a return value: Flask raises TypeError
         Result(session, db, HttpError("500", "TypeError"))

\* the rows of the files table, which no view writes: their token and
\* their fourth column (description)
StoredFiles ==
    {[token |-> "tok1", description |-> NULL],
     [token |-> "tok2", description |-> "notes"]}

Tokens == {"tok1", "tok2", "nosuch"}  \* the <file> part of a /files/<file> URL

\* Database.getFileByToken: the exception it ends with.  fetchone() gives
\* None for a token no row has and result[3] raises TypeError; for a row,
\* getUser(result[3]) compares users.id with the description (an error of
\* the store for a text, no user for NULL) and File(...) is then called
\* with two arguments too few (TypeError)
GetFileByToken(files, token) ==
    IF \A f \in files : f.token # token
    THEN "TypeError"
    ELSE IF (CHOOSE f \in files : f.token = token).description = NULL
    THEN "TypeError"
    ELSE "DataError"

\* _files_get
FilesGet(session, token, db) ==
    IF CookieCheck(session) = "None"
    THEN Result(session, db, Redirect("auth._auth_login"))
    ELSE \* the exception of getFileByToken leaves the view
         Result(session, db, HttpError("500", GetFileByToken(StoredFiles, token)))

----------------------------------------------------------------------------
(* Requests *)

Absent == "<absent>"                 \* marks a field the form does not carry

\* the form holding the fields of r that are not Absent
MakeForm(r) == [k \in {x \in DOMAIN r : r[x] # Absent} |-> r[k]]

EmailInputs == Emails \cup {"", Absent}
PasswordInputs == Passwords \cup {WrongPassword, "", Absent}
NewPasswordInputs == Passwords \cup {"", Absent}
UsernameInputs == Usernames \cup {"", Absent}
CodeInputs ==
    {Code(k, d) : k \in Keys, d \in Drifts}
        \cup {Code("", 0), DebugCode, WrongCode, "", Absent}

LoginForms ==
    {MakeForm([k \in {"email", "password", "2fa"} |->
         CASE k = "email" -> e [] k = "password" -> p [] OTHER -> o]) :
     e \in EmailInputs, p \in PasswordInputs, o \in CodeInputs}

RegisterForms ==
    {MakeForm([k \in {"email", "password", "confirm-password", "username"} |->
         CASE k = "email" -> e [] k = "password" -> p
           [] k = "confirm-password" -> q [] OTHER -> u]) :
     e \in EmailInputs, p \in NewPasswordInputs, q \in PasswordInputs,
     u \in UsernameInputs}

Add2faForms == {MakeForm([k \in {"2fa"} |-> o]) : o \in CodeInputs}

ResetForms == {MakeForm([k \in {"email"} |-> e]) : e \in EmailInputs}

NoForm == << >>
Idle == << >>                        \* no registration POST of the client in flight

Methods == {"GET", "POST"}

\* the forms a request of that method may carry
FormsOf(method, forms) == IF method = "GET" THEN {NoForm} ELSE forms

\* no response in flight
NoLast ==
    [client |-> "", endpoint |-> "", method |-> "", cookie |-> EmptySession,
     ran |-> FALSE, response |-> NoResponse]

\* the gate let the request through to its view
Passed(g) == g.response.kind = "none"

\* the outcome of a request the gate answered itself
Blocked(g, db) == Result(g.session, db, g.response)

\* client c may send a request: the last response was delivered and no
\* request of c is being served
Ready(c) == last = NoLast /\ inflight[c] = Idle /\ storeUp

\* The end of a request of client c: the session is saved with the response
Respond(c, endpoint, method, ran, r) ==
    /\ r.database.nextId <= MaxUsers + 1
    /\ sessions' = [sessions EXCEPT ![c] = r.session]
    /\ database' = r.database
    /\ last' = [client |-> c, endpoint |-> endpoint, method |-> method,
                cookie |-> sessions[c], ran |-> ran, response |-> r.response]
    /\ UNCHANGED <<debug, inflight, storeUp>>

\* Each request is one pass through Flask's dispatch: _before_request and,
\* if it returns nothing, the view of the endpoint

RequestStatic(c) ==
    /\ Ready(c)
    /\ \E g \in {BeforeRequest(sessions[c], "static", database)} :
       \E r \in {IF Passed(g) THEN Result(g.session, database, Render("static"))
                 ELSE Blocked(g, database)} :
           Respond(c, "static", "GET", Passed(g), r)

RequestInfo(c) ==
    /\ Ready(c)
    /\ \E g \in {BeforeRequest(sessions[c], "info._info_index", database)} :
       \E r \in {IF Passed(g) THEN InfoIndex(g.session, database)
                 ELSE Blocked(g, database)} :
           Respond(c, "info._info_index", "GET", Passed(g), r)

RequestLogin(c, method, form) ==
    /\ Ready(c)
    /\ \E g \in {BeforeRequest(sessions[c], "auth._auth_login", database)} :
       \E r \in {IF Passed(g) THEN AuthLogin(g.session, method, form, database)
                 ELSE Blocked(g, database)} :
           Respond(c, "auth._auth_login", method, Passed(g), r)

RequestRegister(c, method, form) ==
    /\ Ready(c)
    /\ \E g \in {BeforeRequest(sessions[c], "auth._auth_register", database)} :
       \E r \in {IF Passed(g) THEN AuthRegister(g.session, method, form, database)
                 ELSE Blocked(g, database)} :
           Respond(c, "auth._auth_register", method, Passed(g), r)

RequestAdd2fa(c, method, form, key) ==
    /\ Ready(c)
    /\ \E g \in {BeforeRequest(sessions[c], "auth._auth_add_2fa", database)} :
       \E r \in {IF Passed(g)
                 THEN AuthAdd2fa(g.session, method, form, database, debug, key)
                 ELSE Blocked(g, database)} :
           Respond(c, "auth._auth_add_2fa", method, Passed(g), r)

RequestPasswordReset(c, method, form, code) ==
    /\ Ready(c)
    /\ \E g \in {BeforeRequest(sessions[c], "auth._auth_password_reset", database)} :
       \E r \in {IF Passed(g) THEN AuthPasswordReset(g.session, method, form, database, code)
                 ELSE Blocked(g, database)} :
           Respond(c, "auth._auth_password_reset", method, Passed(g), r)

RequestLogout(c) ==
    /\ Ready(c)
    /\ \E g \in {BeforeRequest(sessions[c], "auth._auth_logout", database)} :
       \E r \in {IF Passed(g) THEN AuthLogout(g.session, database)
                 ELSE Blocked(g, database)} :
           Respond(c, "auth._auth_logout", "GET", Passed(g), r)

RequestUpload(c, method, hasFile) ==
    /\ Ready(c)
    /\ \E g \in {BeforeRequest(sessions[c], "files._files_upload", database)} :
       \E r \in {IF Passed(g) THEN FilesUpload(g.session, method, hasFile, database)
                 ELSE Blocked(g, database)} :
           Respond(c, "files._files_upload", method, Passed(g), r)

RequestUploadBulk(c, method, hasFiles) ==
    /\ Ready(c)
    /\ \E g \in {BeforeRequest(sessions[c], "files._files_upload_bulk", database)} :
       \E r \in {IF Passed(g) THEN FilesUploadBulk(g.session, method, hasFiles, database)
                 ELSE Blocked(g, database)} :
           Respond(c, "files._files_upload_bulk", method, Passed(g), r)

RequestGetFile(c, token) ==
    /\ Ready(c)
    /\ \E g \in {BeforeRequest(sessions[c], "files._files_get", database)} :
       \E r \in {IF Passed(g) THEN FilesGet(g.session, token, database)
                 ELSE Blocked(g, database)} :
           Respond(c, "files._files_get", "GET", Passed(g), r)

\* A registration POST up to and including its email lookup, when the
\* handler goes on to insert
RegisterBegin(c, form) ==
    /\ Ready(c)
    /\ \E g \in {BeforeRequest(sessions[c], "auth._auth_register", database)} :
        /\ Passed(g)
        /\ AuthRegisterCheck(g.session, "POST", form, database).kind = "none"
        /\ sessions' = [sessions EXCEPT ![c] = g.session]
        /\ inflight' = [inflight EXCEPT ![c] = form]
        /\ UNCHANGED <<database, debug, last, storeUp>>

\* The rest of that registration POST: the insert and the response
RegisterFinish(c) ==
    /\ last = NoLast /\ storeUp
    /\ inflight[c] # Idle
    /\ \E r \in {AuthRegisterInsert(sessions[c], inflight[c], database)} :
        /\ r.database.nextId <= MaxUsers + 1
        /\ sessions' = [sessions EXCEPT ![c] = r.session]
        /\ database' = r.database
        /\ inflight' = [inflight EXCEPT ![c] = Idle]
        /\ last' = [client |-> c, endpoint |-> "auth._auth_register", method |-> "POST",
                    cookie |-> sessions[c], ran |-> TRUE, response |-> r.response]
        /\ UNCHANGED <<debug, storeUp>>

\* The client receives the response
Deliver ==
    /\ last # NoLast
    /\ last' = NoLast
    /\ UNCHANGED <<database, sessions, debug, inflight, storeUp>>

----------------------------------------------------------------------------
(* Environment *)

AccessLevels == {-1, 0}

\* an operator of the service sets a user's access level (-1 bans)
AdminSetAccessLevel(id, level) ==
    /\ last = NoLast /\ storeUp
    /\ id \in DOMAIN database.users
    /\ database' = [database EXCEPT !.users =
           [i \in DOMAIN database.users |->
               IF i = id THEN [database.users[i] EXCEPT !.accessLevel = level]
               ELSE database.users[i]]]
    /\ UNCHANGED <<sessions, debug, inflight, last, storeUp>>

\* a user's row disappears from the users table
AdminDeleteUser(id) ==
    /\ last = NoLast /\ storeUp
    /\ id \in DOMAIN database.users
    /\ database' = [database EXCEPT !.users =
           [i \in (DOMAIN database.users) \ {id} |-> database.users[i]]]
    /\ UNCHANGED <<sessions, debug, inflight, last, storeUp>>

----------------------------------------------------------------------------
(* Requests served while the store cannot be reached: every query of *)
(* database.py raises psycopg2's OperationalError, which nothing catches   *)

StoreError == HttpError("500", "OperationalError")

\* faulty variant of the gate during an outage: the failed lookup is taken
\* as "no such user"
BeforeRequestDownAsAbsent(session, endpoint) ==
    IF endpoint = "static"
    THEN [session |-> session, response |-> NoResponse]
    ELSE [session |-> EmptySession, response |-> NoResponse]

\* _before_request during an outage: checkUserExists raises as soon as it
\* is called, that is for a session with an id
BeforeRequestDown(session, endpoint) ==
    IF endpoint = "static"
    THEN [session |-> session, response |-> NoResponse]
    ELSE IF DictLen(session) <= 0 \/ "id" \notin DOMAIN session
    THEN [session |-> EmptySession, response |-> NoResponse]
    ELSE [session |-> session, response |-> StoreError]

\* the view of the endpoint during an outage
ViewDown(endpoint, session, method, form, db, dbg) ==
    CASE endpoint = "static" -> Result(session, db, Render("static"))
      [] endpoint = "info._info_index" -> InfoIndex(session, db)
      [] endpoint = "auth._auth_logout" -> AuthLogout(session, db)
      [] endpoint = "files._files_upload" -> FilesUpload(session, method, FALSE, db)
      [] endpoint = "auth._auth_login" ->
            IF CookieCheck(session) = "Valid"
            THEN Result(session, db, Redirect("info._info_index"))
            ELSE IF method = "GET"
            THEN Result(session, db, Render("auth/login.html"))
            ELSE LET v == VerifyForm(form, <<"email", "password", "2fa">>) IN
            IF ~v.valid /\ v.number # 2
            THEN Result(session, db, RenderError("auth/login.html", v.error))
            ELSE Result(session, db, StoreError)        \* getUserByEmail
      [] endpoint = "auth._auth_register" ->
            IF CookieCheck(session) = "Valid"
            THEN Result(session, db, Redirect("info._info_index"))
            ELSE IF method = "GET"
            THEN Result(session, db, Render("auth/register.html"))
            ELSE LET v == VerifyForm(form, <<"email", "password",
                                            "confirm-password", "username">>) IN
            IF ~v.valid
            THEN Result(session, db, RenderError("auth/register.html", v.error))
            ELSE IF form["password"] # form["confirm-password"]
            THEN Result(session, db, HttpError("500", "TypeError"))
            ELSE Result(session, db, StoreError)        \* getUserByEmail
      [] endpoint = "auth._auth_password_reset" ->
            IF CookieCheck(session) = "Valid"
            THEN Result(session, db, Redirect("info._info_index"))
            ELSE IF method = "GET"
            THEN Result(session, db, Render("auth/password_reset.html"))
            ELSE LET v == VerifyForm(form, <<"email">>) IN
            IF ~v.valid
            THEN Result(session, db, RenderError("auth/password_reset.html", v.error))
            ELSE Result(session, db, StoreError)        \* getUserByEmail
      [] endpoint = "auth._auth_add_2fa" ->
            IF ~CanAdd2fa(session)
            THEN Result(session, db, Redirect("auth._auth_login"))
            ELSE IF method = "GET"
            THEN IF "id" \notin DOMAIN session
                 THEN Result(session, db, HttpError("500", "KeyError"))
                 ELSE Result(session, db, StoreError)   \* getUser
            ELSE LET v == VerifyForm(form, <<"2fa">>) IN
            IF ~v.valid
            THEN Result(session, db, RenderError("auth/2fa_add.html", v.error))
            ELSE IF "2faKey" \notin DOMAIN session
            THEN Result(session, db, HttpError("500", "KeyError"))
            ELSE IF (~TotpVerify(session["2faKey"], form["2fa"], 1))
                    /\ (dbg /\ form["2fa"] # DebugCode)
            THEN Result(session, db, RenderError("auth/2fa_add.html", "Invalid 2FA"))
            ELSE IF "id" \notin DOMAIN session
            THEN Result(session, db, HttpError("500", "KeyError"))
            ELSE Result(session, db, StoreError)        \* setUserOtpKey

\* the forms a POST to the endpoint may carry
FormsFor(endpoint) ==
    CASE endpoint = "auth._auth_login" -> LoginForms
      [] endpoint = "auth._auth_register" -> RegisterForms
      [] endpoint = "auth._auth_password_reset" -> ResetForms
      [] endpoint = "auth._auth_add_2fa" -> Add2faForms
      [] OTHER -> {NoForm}

Endpoints ==
    {"static", "info._info_index", "auth._auth_login", "auth._auth_register",
     "auth._auth_add_2fa", "auth._auth_password_reset", "auth._auth_logout",
     "files._files_upload"}

\* a request of client c served during an outage
RequestDown(c, endpoint, method, form) ==
    /\ last = NoLast /\ inflight[c] = Idle /\ ~storeUp
    /\ \E g \in {BeforeRequestDown(sessions[c], endpoint)} :
       \E r \in {IF Passed(g)
                 THEN ViewDown(endpoint, g.session, method, form, database, debug)
                 ELSE Blocked(g, database)} :
           Respond(c, endpoint, method, Passed(g), r)

\* the store stops answering
StoreFails ==
    /\ last = NoLast /\ storeUp
    /\ storeUp' = FALSE
    /\ UNCHANGED <<database, sessions, debug, inflight, last>>

\* the store answers again
StoreRecovers ==
    /\ last = NoLast /\ ~storeUp
    /\ storeUp' = TRUE
    /\ UNCHANGED <<database, sessions, debug, inflight, last>>

----------------------------------------------------------------------------
(* Specifications *)

Init ==
    /\ database = [users |-> << >>, nextId |-> 1]
    /\ sessions = [c \in Clients |-> EmptySession]
    /\ debug \in BOOLEAN
    /\ inflight = [c \in Clients |-> Idle]
    /\ last = NoLast
    /\ storeUp = TRUE

\* One client, requests one after the other, any of the emails
SeqClients == {"c1"}

Next ==
    \/ \E c \in SeqClients : RequestStatic(c)
    \/ \E c \in SeqClients : RequestInfo(c)
    \/ \E c \in SeqClients, m \in Methods : \E f \in FormsOf(m, LoginForms) :
           RequestLogin(c, m, f)
    \/ \E c \in SeqClients, m \in Methods : \E f \in FormsOf(m, RegisterForms) :
           RequestRegister(c, m, f)
    \/ \E c \in SeqClients, k \in Keys : RequestAdd2fa(c, "GET", NoForm, k)
    \/ \E c \in SeqClients, f \in Add2faForms : RequestAdd2fa(c, "POST", f, "")
    \/ \E c \in SeqClients : RequestPasswordReset(c, "GET", NoForm, "")
    \/ \E c \in SeqClients, f \in ResetForms, k \in ResetCodes :
           RequestPasswordReset(c, "POST", f, k)
    \/ \E c \in SeqClients : RequestLogout(c)
    \/ \E c \in SeqClients, m \in Methods, h \in BOOLEAN : RequestUpload(c, m, h)
    \/ Deliver
    \/ \E id \in 1 .. MaxUsers, level \in AccessLevels : AdminSetAccessLevel(id, level)
    \/ \E id \in 1 .. MaxUsers : AdminDeleteUser(id)

Spec == Init /\ [][Next]_vars

\* Two clients and one email; a registration POST may be cut in two
ConcEmails == {"a@x"}

OnlyEmails(forms, emails) ==
    {f \in forms : "email" \in DOMAIN f => f["email"] \in emails \cup {""}}

ConcLoginForms == OnlyEmails(LoginForms, ConcEmails)
ConcRegisterForms == OnlyEmails(RegisterForms, ConcEmails)
ConcResetForms == OnlyEmails(ResetForms, ConcEmails)

NextConc ==
    \/ \E c \in Clients : RequestStatic(c)
    \/ \E c \in Clients : RequestInfo(c)
    \/ \E c \in Clients, m \in Methods : \E f \in FormsOf(m, ConcLoginForms) :
           RequestLogin(c, m, f)
    \/ \E c \in Clients, m \in Methods : \E f \in FormsOf(m, ConcRegisterForms) :
           RequestRegister(c, m, f)
    \/ \E c \in Clients, f \in ConcRegisterForms : RegisterBegin(c, f)
    \/ \E c \in Clients : RegisterFinish(c)
    \/ \E c \in Clients, k \in Keys : RequestAdd2fa(c, "GET", NoForm, k)
    \/ \E c \in Clients, f \in Add2faForms : RequestAdd2fa(c, "POST", f, "")
    \/ \E c \in Clients : RequestPasswordReset(c, "GET", NoForm, "")
    \/ \E c \in Clients, f \in ConcResetForms, k \in ResetCodes :
           RequestPasswordReset(c, "POST", f, k)
    \/ \E c \in Clients : RequestLogout(c)
    \/ \E c \in Clients, m \in Methods, h \in BOOLEAN : RequestUpload(c, m, h)
    \/ \E c \in Clients, m \in Methods, h \in BOOLEAN : RequestUploadBulk(c, m, h)
    \/ \E c \in Clients, t \in Tokens : RequestGetFile(c, t)
    \/ Deliver
    \/ \E id \in 1 .. MaxUsers, level \in AccessLevels : AdminSetAccessLevel(id, level)
    \/ \E id \in 1 .. MaxUsers : AdminDeleteUser(id)

SpecConc == Init /\ [][NextConc]_vars

\* The store outlives the application: a start with a users table that
\* already holds one account, of any access level, enrolled or not, whose
\* last_otp is NULL, a reset code or a code of its own key
StoredRows ==
    {[email |-> "a@x", password |-> HashPassword("pw1"), username |-> "alice",
      accessLevel |-> a, otp |-> k, lastOtp |-> l] :
        a \in AccessLevels, k \in {"KEYA", ""},
        l \in {NULL} \cup ResetCodes \cup {Code("KEYA", d) : d \in Drifts}}

InitStored ==
    /\ database \in {[users |-> [i \in {1} |-> row], nextId |-> 2] : row \in StoredRows}
    /\ sessions = [c \in Clients |-> EmptySession]
    /\ debug \in BOOLEAN
    /\ inflight = [c \in Clients |-> Idle]
    /\ last = NoLast
    /\ storeUp = TRUE

\* the requests of one client that sign in, browse and sign out
NextStored ==
    \/ \E c \in SeqClients : RequestInfo(c)
    \/ \E c \in SeqClients : \E method \in Methods :
          \E form \in FormsOf(method, ConcLoginForms) : RequestLogin(c, method, form)
    \/ \E c \in SeqClients : RequestLogout(c)
    \/ \E c \in SeqClients : \E method \in Methods : RequestUpload(c, method, FALSE)
    \/ \E c \in SeqClients : \E method \in Methods :
          RequestUploadBulk(c, method, FALSE)
    \/ \E c \in SeqClients : \E token \in Tokens : RequestGetFile(c, token)
    \/ Deliver

SpecStored == InitStored /\ [][NextStored]_vars

\* the same, with outages of the store
NextOutage ==
    \/ \E c \in SeqClients : RequestInfo(c)
    \/ \E c \in SeqClients : \E method \in Methods :
          \E form \in FormsOf(method, ConcLoginForms) : RequestLogin(c, method, form)
    \/ \E c \in SeqClients : RequestLogout(c)
    \/ \E c \in SeqClients : \E endpoint \in Endpoints : \E method \in Methods :
          \E form \in FormsOf(method, FormsFor(endpoint)) :
             RequestDown(c, endpoint, method, form)
    \/ StoreFails
    \/ StoreRecovers
    \/ Deliver

SpecOutage == InitStored /\ [][NextOutage]_vars

\* login forms of a client that does not know the password of any account
IntruderLoginForms ==
    {f \in ConcLoginForms : "password" \in DOMAIN f => f["password"] \notin Passwords}

\* the requests of one client that never submits an account's password and
\* registers no account, against a store that holds one account
NextIntruder ==
    \/ \E c \in SeqClients : RequestInfo(c)
    \/ \E c \in SeqClients : \E method \in Methods :
          \E form \in FormsOf(method, IntruderLoginForms) : RequestLogin(c, method, form)
    \/ \E c \in SeqClients : \E key \in Keys : RequestAdd2fa(c, "GET", NoForm, key)
    \/ \E c \in SeqClients : \E form \in Add2faForms : RequestAdd2fa(c, "POST", form, "")
    \/ \E c \in SeqClients : RequestLogout(c)
    \/ \E c \in SeqClients : \E method \in Methods : RequestUpload(c, method, FALSE)
    \/ Deliver

SpecIntruder == InitStored /\ [][NextIntruder]_vars

\* The client follows a redirect: a GET to the endpoint the response names.
\* The views redirect to these four endpoints only (urlFor at app.py 117,
\* 126, 132, 217, 243, 262, 281, 314, 330, 362, 381, 446, 479, 513)
FollowGet(session, endpoint, db, dbg, key) ==
    LET g == BeforeRequest(session, endpoint, db) IN
    IF ~Passed(g) THEN Blocked(g, db)
    ELSE CASE endpoint = "info._info_index" -> InfoIndex(g.session, db)
           [] endpoint = "auth._auth_login" -> AuthLogin(g.session, "GET", NoForm, db)
           [] endpoint = "auth._auth_add_2fa" ->
                 AuthAdd2fa(g.session, "GET", NoForm, db, dbg, key)
           [] endpoint = "auth._auth_logout" -> AuthLogout(g.session, db)

FollowRedirect(c, key) ==
    /\ last # NoLast /\ last.client = c /\ last.response.kind = "redirect"
    /\ inflight[c] = Idle /\ storeUp
    /\ Respond(c, last.response.target, "GET",
               Passed(BeforeRequest(sessions[c], last.response.target, database)),
               FollowGet(sessions[c], last.response.target, database, debug, key))

\* Any cookie: each of the keys the views write, present or not; the id of
\* a user or of none
AnySessions ==
    {[k \in keys |-> CASE k = "id" -> i [] k = "2fa" -> t [] OTHER -> q] :
     keys \in SUBSET {"id", "2fa", "2faKey"},
     i \in 1 .. MaxUsers, t \in BOOLEAN, q \in Keys}

\* a start with any cookie and a users table that is empty or holds one
\* account in any state
InitAny ==
    /\ database \in {[users |-> << >>, nextId |-> 1]}
           \cup {[users |-> [i \in {1} |-> row], nextId |-> 2] : row \in StoredRows}
    /\ sessions \in {[c \in Clients |-> IF c \in SeqClients THEN s ELSE EmptySession] :
                       s \in AnySessions}
    /\ debug \in BOOLEAN
    /\ inflight = [c \in Clients |-> Idle]
    /\ last = NoLast
    /\ storeUp = TRUE

\* one client that requests any endpoint and follows the redirects
NextRedirect ==
    \/ \E c \in SeqClients : RequestStatic(c)
    \/ \E c \in SeqClients : RequestInfo(c)
    \/ \E c \in SeqClients : \E method \in Methods :
          \E form \in FormsOf(method, ConcLoginForms) : RequestLogin(c, method, form)
    \/ \E c \in SeqClients : \E method \in Methods :
          \E form \in FormsOf(method, ConcRegisterForms) : RequestRegister(c, method, form)
    \/ \E c \in SeqClients : \E key \in Keys : RequestAdd2fa(c, "GET", NoForm, key)
    \/ \E c \in SeqClients : \E form \in Add2faForms : RequestAdd2fa(c, "POST", form, "")
    \/ \E c \in SeqClients : RequestPasswordReset(c, "GET", NoForm, "")
    \/ \E c \in SeqClients : \E form \in ConcResetForms : \E code \in ResetCodes :
          RequestPasswordReset(c, "POST", form, code)
    \/ \E c \in SeqClients : RequestLogout(c)
    \/ \E c \in SeqClients : \E method \in Methods : RequestUpload(c, method, FALSE)
    \/ \E c \in SeqClients : \E method \in Methods :
          RequestUploadBulk(c, method, FALSE)
    \/ \E c \in SeqClients : \E token \in Tokens : RequestGetFile(c, token)
    \/ \E c \in SeqClients : \E key \in Keys : FollowRedirect(c, key)
    \/ Deliver

SpecRedirect == InitAny /\ [][NextRedirect]_vars

----------------------------------------------------------------------------
(* Properties *)

\* the step serves a request of client c (its response is now in flight)
Serves(c) == last = NoLast /\ last' # NoLast /\ last'.client = c

\* the session's id is that of a user of the table
KnownUser(session, db) == "id" \in DOMAIN session /\ CheckUserExists(db, session["id"])

\* the session's id is that of an existing, non-banned user with no otpKey
NeedsEnrollment(session, db) ==
    /\ KnownUser(session, db)
    /\ ~Banned(GetUser(db, session["id"]))
    /\ GetUser(db, session["id"]).otp = ""

\* the session holds an id that no user of the table has
StaleSession(session, db) ==
    "id" \in DOMAIN session /\ ~CheckUserExists(db, session["id"])

C1_Step(c) ==
    (Serves(c) /\ last'.endpoint # "static" /\ NeedsEnrollment(sessions[c], database))
    => /\ BeforeRequest(sessions[c], last'.endpoint, database).session["2fa"] = FALSE
       /\ (last'.endpoint # "auth._auth_add_2fa")
             => /\ ~last'.ran
                /\ last'.response = Redirect("auth._auth_add_2fa")
                /\ sessions'[c] = SetKey(sessions[c], "2fa", FALSE)
                /\ database' = database
       /\ last'.ran => last'.endpoint = "auth._auth_add_2fa"

\* C1: a non-static request whose session id is that of an existing,
\* non-banned user with an empty otpKey gets "2fa" = False from the gate and
\* is redirected to the enrollment endpoint unless it targets that endpoint;
\* no view other than the enrollment view runs for it.
C1_GateForcesEnrollment == [][\A c \in Clients : C1_Step(c)]_vars

\* a request for the upload page, with a cookie that says "2fa" = True for a
\* user without otpKey, was redirected to enrollment with "2fa" forced False
C1_Witness ==
    /\ last.endpoint = "files._files_upload"
    /\ NeedsEnrollment(last.cookie, database)
    /\ "2fa" \in DOMAIN last.cookie /\ last.cookie["2fa"]
    /\ ~last.ran
    /\ last.response = Redirect("auth._auth_add_2fa")
    /\ sessions[last.client]["2fa"] = FALSE

C2_Step(c) ==
    (/\ Serves(c) /\ last'.endpoint # "static"
     /\ {"id", "2fa"} \subseteq DOMAIN sessions[c]
     /\ KnownUser(sessions[c], database)
     /\ GetUser(database, sessions[c]["id"]).accessLevel = -1)
    => /\ ~last'.ran
       /\ last'.response = RedirectWith("auth._auth_logout", "Banned")
       /\ sessions'[c] = EmptySession
       /\ database' = database

\* C2: a non-static request with a session holding id and "2fa" whose user
\* is banned (access level -1): the gate clears the session and redirects to logout with
\* condition "Banned"; the view of the endpoint does not run.
C2_BannedSessionCleared == [][\A c \in Clients : C2_Step(c)]_vars

\* a request with a fully verified cookie of a user banned since was
\* answered by the gate
C2_Witness ==
    /\ last # NoLast /\ ~last.ran
    /\ {"id", "2fa"} \subseteq DOMAIN last.cookie
    /\ last.cookie["2fa"]
    /\ KnownUser(last.cookie, database)
    /\ GetUser(database, last.cookie["id"]).accessLevel = -1
    /\ last.response = RedirectWith("auth._auth_logout", "Banned")
    /\ sessions[last.client] = EmptySession

C3_Original(c) ==
    (Serves(c) /\ last'.endpoint # "static" /\ StaleSession(sessions[c], database))
    => /\ BeforeRequest(sessions[c], last'.endpoint, database)
             = [session |-> EmptySession, response |-> NoResponse]
       /\ last'.ran
       /\ "id" \notin DOMAIN sessions'[c]

C3_Step(c) ==
    (Serves(c) /\ last'.endpoint # "static" /\ StaleSession(sessions[c], database))
    => /\ BeforeRequest(sessions[c], last'.endpoint, database)
             = [session |-> EmptySession, response |-> NoResponse]
       /\ last'.ran
       /\ \/ sessions'[c] = EmptySession
          \/ /\ last'.endpoint \in {"auth._auth_login", "auth._auth_register"}
             /\ last'.method = "POST"
             /\ last'.response \in {Redirect("auth._auth_add_2fa"),
                                    Redirect("info._info_index")}
             /\ "id" \in DOMAIN sessions'[c]
             /\ sessions'[c]["id"] # sessions[c]["id"]
             /\ CheckUserExists(database', sessions'[c]["id"])

LoginRejections ==
    {RenderError("auth/login.html", e) :
        e \in {"Missing field: email", "Missing field: password", "Invalid Email",
               "Invalid Password", "Banned", "Invalid 2FA"}}

\* the form names a user who is not banned, with that user's password and a
\* code that is not the current code of the user's key
RightPasswordWrongCode(form, db) ==
    /\ ~FieldMissing(form, "email") /\ ~FieldMissing(form, "password")
    /\ ~FieldMissing(form, "2fa")
    /\ \E i \in DOMAIN db.users :
          /\ db.users[i].email = form["email"]
          /\ db.users[i].password = HashPassword(form["password"])
          /\ db.users[i].accessLevel # -1
          /\ form["2fa"] # Code(db.users[i].otp, 0)

\* C4: a login POST that ends in a rejection leaves neither id nor "2fa" in
\* the session; and a login POST with the email and password of a user but
\* a wrong code is answered "Invalid 2FA" without setting the session id.
C4_RejectedLoginLeavesSession ==
    /\ (/\ last.endpoint = "auth._auth_login" /\ last.method = "POST" /\ last.ran
        /\ last.response \in LoginRejections)
       => /\ "id" \notin DOMAIN sessions[last.client]
          /\ "2fa" \notin DOMAIN sessions[last.client]
    /\ (last = NoLast)
       => \A c \in Clients : \A form \in LoginForms :
             \A g \in {BeforeRequest(sessions[c], "auth._auth_login", database)} :
                (/\ Passed(g) /\ CookieCheck(g.session) = "None"
                 /\ RightPasswordWrongCode(form, database))
                => \A r \in {AuthLogin(g.session, "POST", form, database)} :
                      /\ r.response = RenderError("auth/login.html", "Invalid 2FA")
                      /\ "id" \notin DOMAIN r.session
                      /\ "2fa" \notin DOMAIN r.session

\* a login POST for an enrolled user was answered "Invalid 2FA" and the
\* session is still empty
C4_Witness ==
    /\ last.endpoint = "auth._auth_login" /\ last.method = "POST" /\ last.ran
    /\ last.response = RenderError("auth/login.html", "Invalid 2FA")
    /\ sessions[last.client] = EmptySession
    /\ \E i \in DOMAIN database.users : database.users[i].otp # ""

\* the step serves an enrollment POST that reached the view
ServesAdd2faPost(c) ==
    /\ Serves(c)
    /\ last'.endpoint = "auth._auth_add_2fa" /\ last'.method = "POST" /\ last'.ran

\* the code the form submits is one TOTP(key) accepts with valid_window=1
CodeOfKey(form, key) == \E d \in (0 - 1) .. 1 : form["2fa"] = Code(key, d)

C5_Original(c) ==
    ServesAdd2faPost(c)
    => \A form \in Add2faForms :
       \A g \in {BeforeRequest(sessions[c], "auth._auth_add_2fa", database)} :
          (/\ RequestAdd2fa(c, "POST", form, "")
           /\ "2faKey" \in DOMAIN g.session
           /\ ~FieldMissing(form, "2fa")
           /\ ~CodeOfKey(form, g.session["2faKey"]))
          => /\ last'.response = RenderError("auth/2fa_add.html", "Invalid 2FA")
             /\ database' = database
             /\ "2fa" \in DOMAIN sessions'[c] /\ sessions'[c]["2fa"] = FALSE
             /\ "2faKey" \in DOMAIN sessions'[c]
             /\ sessions'[c]["2faKey"] = g.session["2faKey"]

\* C5 as stated: an enrollment POST whose code does not verify against the
\* session's "2faKey" is answered "Invalid 2FA", whatever app.debug and the
\* code are, and leaves the user's otpKey, "2fa" = False and "2faKey" as
\* they were.
C5_WrongCodeRejected == [][\A c \in Clients : C5_Original(c)]_vars

C6_Step(c) ==
    ServesAdd2faPost(c)
    => \A form \in Add2faForms :
       \A g \in {BeforeRequest(sessions[c], "auth._auth_add_2fa", database)} :
          (/\ RequestAdd2fa(c, "POST", form, "")
           /\ "2faKey" \in DOMAIN g.session
           /\ ~FieldMissing(form, "2fa")
           /\ CodeOfKey(form, g.session["2faKey"]))
          => /\ last'.response = Redirect("info._info_index")
             /\ "id" \in DOMAIN g.session
             /\ DOMAIN database'.users = DOMAIN database.users
             /\ database'.nextId = database.nextId
             /\ \A i \in DOMAIN database.users :
                   database'.users[i] =
                      IF i = g.session["id"]
                      THEN [database.users[i] EXCEPT !.otp = g.session["2faKey"]]
                      ELSE database.users[i]
             /\ DOMAIN sessions'[c] = (DOMAIN g.session \ {"2faKey"}) \cup {"2fa"}
             /\ sessions'[c]["2fa"] = TRUE
             /\ sessions'[c]["id"] = g.session["id"]

\* C6: an enrollment POST whose code verifies against the session's "2faKey"
\* stores exactly that key as the otpKey of the session's user, changes no
\* other user and no other column, sets "2fa" = True, removes "2faKey" from
\* the session and redirects to the home page.
C6_EnrollmentPersistsKey == [][\A c \in Clients : C6_Step(c)]_vars

\* an enrollment POST on a session with a "2faKey" was answered with the
\* redirect home: the user now has that key, the session says "2fa" = True
\* and holds no "2faKey", and another user's otpKey is still empty
C6_Witness ==
    /\ last.endpoint = "auth._auth_add_2fa" /\ last.method = "POST" /\ last.ran
    /\ debug
    /\ last.response = Redirect("info._info_index")
    /\ "2faKey" \in DOMAIN last.cookie
    /\ KnownUser(last.cookie, database)
    /\ GetUser(database, last.cookie["id"]).otp = last.cookie["2faKey"]
    /\ sessions[last.client] = [id |-> last.cookie["id"], 2fa |-> TRUE]
    /\ \E j \in DOMAIN database.users : database.users[j].otp = ""

C7_Original(c) ==
    (/\ Serves(c) /\ last'.endpoint = "auth._auth_add_2fa"
     /\ \/ "id" \notin DOMAIN sessions[c]
        \/ ("2fa" \in DOMAIN sessions[c] /\ sessions[c]["2fa"]))
    => /\ last'.response = Redirect("auth._auth_login")
       /\ sessions'[c] = sessions[c]
       /\ database' = database

\* C7 as stated: a request to the enrollment endpoint from a session without
\* id, or with "2fa" = True, is answered with the redirect to login and
\* changes neither the session nor the users table.
C7_EnrollmentNeedsSignIn == [][\A c \in Clients : C7_Original(c)]_vars

C8_Original(c) ==
    (RegisterFinish(c) /\ EmailTaken(database, inflight[c]["email"]))
    => /\ last'.response = RenderError("auth/register.html", "Email already in use")
       /\ database' = database

\* C8 as stated: of two registration POSTs with the same email served
\* concurrently, the one that reaches its insert after the other's is
\* rejected with "Email already in use" as a re-rendered form.
C8_ConcurrentDuplicateRejected == [][\A c \in Clients : C8_Original(c)]_vars

\* all four fields present, the passwords equal, the email not registered
ValidRegistration(form, db) ==
    /\ \A k \in {"email", "password", "confirm-password", "username"} :
          ~FieldMissing(form, k)
    /\ form["password"] = form["confirm-password"]
    /\ GetUserByEmail(db, form["email"]) = {}

\* C9: a registration POST from an anonymous session with four non-empty
\* fields, equal passwords and an unregistered email adds exactly one user,
\* with that email and an empty otpKey, changes no other user, leaves a
\* session holding the new user's id and nothing else ("2fa" not set), and
\* redirects to the enrollment endpoint.
C9_RegistrationSignsIn ==
    /\ (last = NoLast)
       => \A c \in Clients : \A form \in RegisterForms :
          \A g \in {BeforeRequest(sessions[c], "auth._auth_register", database)} :
             (/\ inflight[c] = Idle /\ Passed(g) /\ g.session = EmptySession
              /\ ValidRegistration(form, database))
             => \A r \in {AuthRegister(g.session, "POST", form, database)} :
                   /\ r.response = Redirect("auth._auth_add_2fa")
                   /\ \E new \in DOMAIN r.database.users :
                         /\ DOMAIN r.database.users = DOMAIN database.users \cup {new}
                         /\ new \notin DOMAIN database.users
                         /\ r.database.users[new].email = form["email"]
                         /\ r.database.users[new].username = form["username"]
                         /\ VerifyPassword(form["password"], r.database.users[new].password)
                         /\ r.database.users[new].otp = ""
                         /\ r.session = [id |-> new]
                   /\ \A i \in DOMAIN database.users :
                         r.database.users[i] = database.users[i]
    /\ (/\ last.endpoint = "auth._auth_register" /\ last.method = "POST" /\ last.ran
        /\ last.response = Redirect("auth._auth_add_2fa"))
       => /\ DOMAIN sessions[last.client] = {"id"}
          /\ KnownUser(sessions[last.client], database)
          /\ GetUser(database, sessions[last.client]["id"]).otp = ""

\* a registration POST was answered with the redirect to enrollment while
\* another user was registered already: the session holds only the id, the
\* id of a user without otpKey
C9_Witness ==
    /\ last.endpoint = "auth._auth_register" /\ last.method = "POST" /\ last.ran
    /\ last.cookie = EmptySession
    /\ last.response = Redirect("auth._auth_add_2fa")
    /\ DOMAIN sessions[last.client] = {"id"}
    /\ KnownUser(sessions[last.client], database)
    /\ GetUser(database, sessions[last.client]["id"]).otp = ""
    /\ Cardinality(DOMAIN database.users) = 2

C10_Original(c) ==
    (/\ Serves(c)
     /\ last'.endpoint = "auth._auth_register" /\ last'.method = "POST" /\ last'.ran)
    => \A form \in RegisterForms :
          (/\ RequestRegister(c, "POST", form)
           /\ sessions[c] = EmptySession
           /\ \A k \in {"email", "password", "confirm-password", "username"} :
                 ~FieldMissing(form, k)
           /\ form["password"] # form["confirm-password"])
          => /\ last'.response = RenderError("auth/register.html", "Passwords do not match")
             /\ database' = database
             /\ sessions'[c] = EmptySession

\* C10 as stated: a registration POST whose password differs from
\* confirm-password is answered with the registration form carrying
\* "Passwords do not match", never with an HTTP error status; no user is added
\* and the session stays empty.
C10_PasswordMismatchRejected == [][\A c \in Clients : C10_Original(c)]_vars

\* all four fields present, the passwords equal, the email registered
DuplicateRegistration(form, db) ==
    /\ \A k \in {"email", "password", "confirm-password", "username"} :
          ~FieldMissing(form, k)
    /\ form["password"] = form["confirm-password"]
    /\ \E i \in DOMAIN db.users : db.users[i].email = form["email"]

\* C11: with registration POSTs served one at a time the users table never
\* holds two users with one email; a registration POST naming a registered
\* email is answered "Email already in use", adds no user and leaves the
\* session empty.
C11_OneUserPerEmail ==
    /\ \A i, j \in DOMAIN database.users :
          database.users[i].email = database.users[j].email => i = j
    /\ (last = NoLast)
       => \A c \in Clients : \A form \in RegisterForms :
          \A g \in {BeforeRequest(sessions[c], "auth._auth_register", database)} :
             (/\ Passed(g) /\ g.session = EmptySession
              /\ DuplicateRegistration(form, database))
             => AuthRegister(g.session, "POST", form, database)
                   = Result(EmptySession, database,
                            RenderError("auth/register.html", "Email already in use"))
    /\ (/\ last.endpoint = "auth._auth_register" /\ last.method = "POST"
        /\ last.response = RenderError("auth/register.html", "Email already in use"))
       => sessions[last.client] = EmptySession

\* a registration POST was answered "Email already in use"; the table holds
\* two users, with different emails, and the session is empty
C11_Witness ==
    /\ last.endpoint = "auth._auth_register" /\ last.method = "POST" /\ last.ran
    /\ last.response = RenderError("auth/register.html", "Email already in use")
    /\ sessions[last.client] = EmptySession
    /\ Cardinality(DOMAIN database.users) = 2
    /\ Cardinality({database.users[i].email : i \in DOMAIN database.users}) = 2

\* the form carries the email and the password of a user who is not banned
RightPassword(form, db) ==
    /\ ~FieldMissing(form, "email") /\ ~FieldMissing(form, "password")
    /\ \E i \in DOMAIN db.users :
          /\ db.users[i].email = form["email"]
          /\ db.users[i].password = HashPassword(form["password"])
          /\ db.users[i].accessLevel # -1

\* the user the form names
NamedUser(form, db) ==
    db.users[CHOOSE i \in DOMAIN db.users : db.users[i].email = form["email"]]

\* C12: a login POST with the email and password of a user and a code equal
\* to the user's stored lastOtp is answered "Invalid 2FA" and leaves the
\* session without id, also when the code is the current code of the user's
\* otpKey.
C12_ReplayedCodeRejected ==
    /\ (last = NoLast)
       => \A c \in Clients : \A form \in LoginForms :
          \A g \in {BeforeRequest(sessions[c], "auth._auth_login", database)} :
             (/\ Passed(g) /\ g.session = EmptySession
              /\ RightPassword(form, database)
              /\ "2fa" \in DOMAIN form
              /\ form["2fa"] = NamedUser(form, database).lastOtp)
             => AuthLogin(g.session, "POST", form, database)
                   = Result(EmptySession, database,
                            RenderError("auth/login.html", "Invalid 2FA"))
    /\ (/\ last.endpoint = "auth._auth_login" /\ last.method = "POST"
        /\ last.response = RenderError("auth/login.html", "Invalid 2FA"))
       => "id" \notin DOMAIN sessions[last.client]

\* a login POST was answered "Invalid 2FA" for an enrolled, non-banned user
\* whose stored lastOtp is the current code of the user's key
C12_Witness ==
    /\ last.endpoint = "auth._auth_login" /\ last.method = "POST" /\ last.ran
    /\ last.response = RenderError("auth/login.html", "Invalid 2FA")
    /\ sessions[last.client] = EmptySession
    /\ \E i \in DOMAIN database.users :
          /\ database.users[i].otp # ""
          /\ database.users[i].accessLevel # -1
          /\ database.users[i].lastOtp = Code(database.users[i].otp, 0)

\* the endpoints behind the gate
GatedEndpoints ==
    {"info._info_index", "auth._auth_login", "auth._auth_register",
     "auth._auth_add_2fa", "auth._auth_password_reset", "auth._auth_logout",
     "files._files_upload"}

\* the id of the user the form names
NamedId(form, db) == CHOOSE i \in DOMAIN db.users : db.users[i].email = form["email"]

\* C13: a login POST from an anonymous session with the email and password
\* of a non-banned user with an otpKey and the current code of that key,
\* other than lastOtp, sets the session to that user's id with "2fa" = True
\* and redirects home; the gate then lets that session through to the view
\* of every endpoint without changing it.
C13_LoginSucceeds ==
    /\ (last = NoLast)
       => \A c \in Clients : \A form \in LoginForms :
          \A g \in {BeforeRequest(sessions[c], "auth._auth_login", database)} :
             (/\ Passed(g) /\ g.session = EmptySession
              /\ RightPassword(form, database)
              /\ NamedUser(form, database).otp # ""
              /\ "2fa" \in DOMAIN form
              /\ form["2fa"] = Code(NamedUser(form, database).otp, 0)
              /\ form["2fa"] # NamedUser(form, database).lastOtp)
             => \A r \in {AuthLogin(g.session, "POST", form, database)} :
                   /\ r = Result([id |-> NamedId(form, database), 2fa |-> TRUE],
                                 database, Redirect("info._info_index"))
                   /\ \A e \in GatedEndpoints :
                         BeforeRequest(r.session, e, r.database)
                            = [session |-> r.session, response |-> NoResponse]
    /\ (/\ last.endpoint = "auth._auth_login" /\ last.method = "POST" /\ last.ran
        /\ last.response = Redirect("info._info_index")
        /\ ~KnownUser(last.cookie, database))
       => /\ DOMAIN sessions[last.client] = {"id", "2fa"}
          /\ sessions[last.client]["2fa"] = TRUE
          /\ KnownUser(sessions[last.client], database)
          /\ GetUser(database, sessions[last.client]["id"]).accessLevel # -1

\* a login POST from an empty session was answered with the redirect home
\* and the session now holds the id of an enrolled user and "2fa" = True
C13_Witness ==
    /\ last.endpoint = "auth._auth_login" /\ last.method = "POST" /\ last.ran
    /\ last.cookie = EmptySession
    /\ last.response = Redirect("info._info_index")
    /\ DOMAIN sessions[last.client] = {"id", "2fa"}
    /\ sessions[last.client]["2fa"] = TRUE
    /\ KnownUser(sessions[last.client], database)
    /\ GetUser(database, sessions[last.client]["id"]).otp # ""
    /\ GetUser(database, sessions[last.client]["id"]).accessLevel # -1

C14_Original(c) ==
    (Serves(c) /\ last'.endpoint = "auth._auth_logout")
    => /\ sessions'[c] = EmptySession
       /\ last'.response = Render("auth/logout.html")

\* C14 as stated: a request to the logout endpoint, whatever the session
\* holds, ends with an empty session and the logout page rendered.
C14_LogoutClearsSession == [][\A c \in Clients : C14_Original(c)]_vars

C15_Step(c) ==
    (/\ Serves(c) /\ ~storeUp
     /\ last'.endpoint # "static"
     /\ "id" \in DOMAIN sessions[c])
    => /\ last'.response.kind = "error"
       /\ last'.response.target = "500"
       /\ ~last'.ran
       /\ sessions'[c] = sessions[c]
       /\ database' = database

\* C15: while the store cannot be reached, a non-static request with a
\* session that has an id is answered with a server error: the session is
\* left as it was (not cleared), no view runs and the users table is
\* unchanged.
C15_OutageAbortsRequest == [][\A c \in Clients : C15_Step(c)]_vars

\* during an outage a request with the cookie of a signed-in user was
\* answered with the store's error and the session is still that cookie
C15_Witness ==
    /\ ~storeUp
    /\ last # NoLast /\ ~last.ran
    /\ last.response = StoreError
    /\ {"id", "2fa"} \subseteq DOMAIN last.cookie /\ last.cookie["2fa"]
    /\ sessions[last.client] = last.cookie

\* C16: in every reachable state every session holds "2faKey" only if it
\* holds id and its "2fa" is not True, and holds "2fa" only if it holds id.
C16_SessionShape ==
    \A c \in Clients :
       /\ ("2faKey" \in DOMAIN sessions[c])
          => /\ "id" \in DOMAIN sessions[c]
             /\ ~("2fa" \in DOMAIN sessions[c] /\ sessions[c]["2fa"])
       /\ ("2fa" \in DOMAIN sessions[c]) => "id" \in DOMAIN sessions[c]

\* an enrollment POST was rejected: the session still holds its "2faKey",
\* with id and "2fa" = False
C16_Witness ==
    /\ last.endpoint = "auth._auth_add_2fa" /\ last.method = "POST" /\ last.ran
    /\ last.response = RenderError("auth/2fa_add.html", "Invalid 2FA")
    /\ DOMAIN sessions[last.client] = {"id", "2fa", "2faKey"}
    /\ sessions[last.client]["2fa"] = FALSE

C17_Step(c) ==
    (/\ Serves(c)
     /\ last'.endpoint = "auth._auth_password_reset" /\ last'.method = "POST"
     /\ last'.ran
     /\ BeforeRequest(sessions[c], "auth._auth_password_reset", database).session
           = EmptySession)
    => \A form \in ResetForms : \A code \in ResetCodes :
          RequestPasswordReset(c, "POST", form, code)
          => /\ sessions'[c] = EmptySession
             /\ database'.nextId = database.nextId
             /\ DOMAIN database'.users = DOMAIN database.users
             /\ IF FieldMissing(form, "email")
                THEN /\ last'.response = RenderError("auth/password_reset.html",
                                                     "Missing field: email")
                     /\ database' = database
                ELSE IF \A i \in DOMAIN database.users :
                           database.users[i].email # form["email"]
                THEN /\ last'.response = RenderError("auth/password_reset.html",
                                                     "Invalid Email")
                     /\ database' = database
                ELSE \A i \in DOMAIN database.users :
                        database'.users[i] =
                           IF database.users[i].email = form["email"]
                           THEN [database.users[i] EXCEPT !.lastOtp = code]
                           ELSE database.users[i]

\* C17: a password-reset POST from an anonymous session naming a registered
\* email sets that user's lastOtp to the generated code and changes no other
\* column, no other user and no session key; one with a missing or an
\* unregistered email is answered "Missing field: email" or "Invalid Email"
\* and changes nothing.
C17_ResetWritesOnlyLastOtp == [][\A c \in Clients : C17_Step(c)]_vars

\* a password-reset POST from an empty session reached the end of the view:
\* one user's lastOtp is a reset code, another user's is still NULL, and the
\* session is empty
C17_Witness ==
    /\ last.endpoint = "auth._auth_password_reset" /\ last.method = "POST"
    /\ last.ran /\ last.cookie = EmptySession
    /\ last.response.kind = "error"
    /\ sessions[last.client] = EmptySession
    /\ \E i, j \in DOMAIN database.users :
          /\ database.users[i].lastOtp \in ResetCodes
          /\ database.users[j].lastOtp = NULL

C18_Original(c) ==
    (/\ Serves(c) /\ last'.endpoint # "static"
     /\ KnownUser(sessions[c], database)
     /\ "2fa" \notin DOMAIN sessions[c]
     /\ GetUser(database, sessions[c]["id"]).accessLevel = -1)
    => /\ ~last'.ran
       /\ last'.response = RedirectWith("auth._auth_logout", "Banned")
       /\ sessions'[c] = EmptySession

\* C18 as stated: for a session with the id of a banned user and no "2fa"
\* key the gate clears the session and redirects to logout with condition
\* "Banned" instead of setting "2fa" and redirecting to enrollment.
C18_BanBeforeEnrollment == [][\A c \in Clients : C18_Original(c)]_vars

\* the login form passes every check of _auth_login for the user it names
PassesAllChecks(form, db) ==
    /\ RightPassword(form, db)
    /\ "2fa" \in DOMAIN form
    /\ form["2fa"] = Code(NamedUser(form, db).otp, 0)
    /\ form["2fa"] # NamedUser(form, db).lastOtp

\* C19: a login POST sets the session id without the password check only
\* when the user named has an empty otpKey and the form carries no code;
\* for a user with an otpKey the id is set only when the password, the ban
\* and the code checks all passed.
C19_LoginChecksBeforeId ==
    /\ (last = NoLast)
       => \A c \in Clients : \A form \in LoginForms :
          \A g \in {BeforeRequest(sessions[c], "auth._auth_login", database)} :
             (Passed(g) /\ g.session = EmptySession)
             => \A r \in {AuthLogin(g.session, "POST", form, database)} :
                   ("id" \in DOMAIN r.session)
                   => /\ ~FieldMissing(form, "email")
                      /\ r.session["id"] = NamedId(form, database)
                      /\ \/ PassesAllChecks(form, database)
                         \/ /\ NamedUser(form, database).otp = ""
                            /\ FieldMissing(form, "2fa")
                      /\ NamedUser(form, database).otp # ""
                            => PassesAllChecks(form, database)
    /\ (/\ last.endpoint = "auth._auth_login" /\ last.method = "POST" /\ last.ran
        /\ ~KnownUser(last.cookie, database)
        /\ KnownUser(sessions[last.client], database)
        /\ GetUser(database, sessions[last.client]["id"]).otp # "")
       => /\ sessions[last.client]["2fa"] = TRUE
          /\ GetUser(database, sessions[last.client]["id"]).accessLevel # -1
          /\ last.response = Redirect("info._info_index")

\* while another user is enrolled, a login POST signed in a user without
\* otpKey and sent the client to enrollment
C19_Witness ==
    /\ last.endpoint = "auth._auth_login" /\ last.method = "POST" /\ last.ran
    /\ last.response = Redirect("auth._auth_add_2fa")
    /\ KnownUser(sessions[last.client], database)
    /\ GetUser(database, sessions[last.client]["id"]).otp = ""
    /\ \E j \in DOMAIN database.users : database.users[j].otp # ""

\* the login form names a user without otpKey and carries no code
FirstLogin(form, db) ==
    /\ ~FieldMissing(form, "email") /\ ~FieldMissing(form, "password")
    /\ FieldMissing(form, "2fa")
    /\ \E i \in DOMAIN db.users :
          db.users[i].email = form["email"] /\ db.users[i].otp = ""

C20_Original(c) ==
    (/\ Serves(c)
     /\ last'.endpoint = "auth._auth_login" /\ last'.method = "POST" /\ last'.ran
     /\ BeforeRequest(sessions[c], "auth._auth_login", database).session = EmptySession)
    => \A form \in LoginForms :
          (RequestLogin(c, "POST", form) /\ FirstLogin(form, database))
          => /\ sessions'[c] = [id |-> NamedId(form, database)]
             /\ last'.response = Redirect("auth._auth_add_2fa")

\* C20 as stated: a login POST naming a user without otpKey and carrying no
\* code sets the session id, leaves "2fa" out of the session and redirects
\* to enrollment.
C20_FirstLoginLeaves2faUnset == [][\A c \in Clients : C20_Original(c)]_vars

\* C20: a login POST naming a user without otpKey and carrying no code sets
\* the session id and "2fa" = False, changes no user and redirects to
\* enrollment.
C20_FirstLoginSets2faFalse ==
    /\ (last = NoLast)
       => \A c \in Clients : \A form \in LoginForms :
          \A g \in {BeforeRequest(sessions[c], "auth._auth_login", database)} :
             (Passed(g) /\ g.session = EmptySession /\ FirstLogin(form, database))
             => AuthLogin(g.session, "POST", form, database)
                   = Result([id |-> NamedId(form, database), 2fa |-> FALSE], database,
                            Redirect("auth._auth_add_2fa"))
    /\ (/\ last.endpoint = "auth._auth_login" /\ last.method = "POST" /\ last.ran
        /\ last.response = Redirect("auth._auth_add_2fa"))
       => /\ DOMAIN sessions[last.client] = {"id", "2fa"}
          /\ sessions[last.client]["2fa"] = FALSE
          /\ KnownUser(sessions[last.client], database)
          /\ GetUser(database, sessions[last.client]["id"]).otp = ""

\* a login POST from an empty session was answered with the redirect to
\* enrollment and left the session {id, 2fa: False}
C20_Witness ==
    /\ last.endpoint = "auth._auth_login" /\ last.method = "POST" /\ last.ran
    /\ last.cookie = EmptySession
    /\ last.response = Redirect("auth._auth_add_2fa")
    /\ DOMAIN sessions[last.client] = {"id", "2fa"}
    /\ sessions[last.client]["2fa"] = FALSE
    /\ GetUser(database, sessions[last.client]["id"]).otp = ""

\* the step serves a login POST that reached the view on an empty session
ServesLoginPost(c) ==
    /\ Serves(c)
    /\ last'.endpoint = "auth._auth_login" /\ last'.method = "POST" /\ last'.ran
    /\ BeforeRequest(sessions[c], "auth._auth_login", database).session = EmptySession

C21_Original(c) ==
    ServesLoginPost(c)
    => \A form \in LoginForms :
          (/\ RequestLogin(c, "POST", form)
           /\ RightPassword(form, database)
           /\ NamedUser(form, database).otp # ""
           /\ FieldMissing(form, "2fa"))
          => /\ last'.response = RenderError("auth/login.html", "Invalid 2FA")
             /\ sessions'[c] = EmptySession
             /\ database' = database

\* C21 as stated: a login POST with the email and password of a non-banned
\* user with an otpKey, whose code field is absent or empty, is answered with
\* the login form carrying "Invalid 2FA", never with an HTTP error status.
C21_MissingCodeRejected == [][\A c \in Clients : C21_Original(c)]_vars

C22_Original(c) ==
    ServesLoginPost(c)
    => \A form \in LoginForms :
          (/\ RequestLogin(c, "POST", form)
           /\ PassesAllChecks(form, database)
           /\ NamedUser(form, database).otp # "")
          => /\ last'.response = Redirect("info._info_index")
             /\ database'.users[NamedId(form, database)].lastOtp = form["2fa"]

\* C22 as stated: after a login POST succeeded with a code, the lastOtp of
\* the user who signed in is that code (so that the same code is rejected by
\* the replay guard from then on).
C22_LoginStoresLastOtp == [][\A c \in Clients : C22_Original(c)]_vars

MaxHops == 3        \* redirects a client follows before it gives up

RECURSIVE EndsWithin(_, _, _)
\* following the redirect of result r, and those that follow, ends with a
\* response that is no redirect after at most n requests
EndsWithin(r, dbg, n) ==
    IF r.response.kind # "redirect" THEN TRUE
    ELSE IF n = 0 THEN FALSE
    ELSE \A key \in Keys :
            EndsWithin(FollowGet(r.session, r.response.target, r.database, dbg, key),
                       dbg, n - 1)

\* C23: whatever the session and the user's state, and whichever request was
\* served, following the redirect of the response and those of the gate and
\* the views after it reaches a response that is no redirect within MaxHops
\* requests.
C23_RedirectsEnd ==
    (last # NoLast)
    => EndsWithin(Result(sessions[last.client], database, last.response), debug, MaxHops)

\* the response in flight is a redirect whose target answers a GET with a
\* redirect again, whose target then answers with a page: a chain of two
\* redirects is under way
C23_Witness ==
    /\ last # NoLast /\ last.response.kind = "redirect"
    /\ \A key \in Keys :
          \A r \in {FollowGet(sessions[last.client], last.response.target, database,
                              debug, key)} :
             /\ r.response.kind = "redirect"
             /\ FollowGet(r.session, r.response.target, r.database, debug, key)
                   .response.kind = "render"

\* the views that turn a signed-in client away
AnonymousOnly ==
    {"auth._auth_login", "auth._auth_register", "auth._auth_password_reset"}

C24_Step(c) ==
    (/\ Serves(c) /\ last'.endpoint \in AnonymousOnly /\ last'.ran
     /\ BeforeRequest(sessions[c], last'.endpoint, database).session # EmptySession)
    => /\ last'.response = Redirect("info._info_index")
       /\ sessions'[c] = sessions[c]
       /\ database' = database

\* C24: when the login, registration or password-reset view runs on a
\* session that is not empty, for a GET and for a POST with any form, it
\* redirects home and changes neither the session nor the users table.
C24_SignedInTurnedAway == [][\A c \in Clients : C24_Step(c)]_vars

\* a registration POST carrying the cookie of a signed-in user was answered
\* by the view with the redirect home; the session is still that cookie
C24_Witness ==
    /\ last.endpoint = "auth._auth_register" /\ last.method = "POST" /\ last.ran
    /\ {"id", "2fa"} \subseteq DOMAIN last.cookie
    /\ last.response = Redirect("info._info_index")
    /\ sessions[last.client] = last.cookie

\* the views of the files blueprint
FilesEndpoints == {"files._files_upload", "files._files_upload_bulk", "files._files_get"}

\* C25 as stated: whenever a files view ran and did not redirect to login,
\* the session holds an id and "2fa" = True.
C25_FilesNeedVerifiedSession ==
    (/\ last.endpoint \in FilesEndpoints /\ last.ran
     /\ last.response # Redirect("auth._auth_login"))
    => /\ "id" \in DOMAIN sessions[last.client]
       /\ "2fa" \in DOMAIN sessions[last.client]
       /\ sessions[last.client]["2fa"] = TRUE

\* C26 as stated: a client that never submitted the password of an existing
\* user and did not register that user holds no session with "2fa" = True
\* for that user.
C26_VerifiedNeedsPassword ==
    \A c \in Clients :
       ~(/\ KnownUser(sessions[c], database)
         /\ "2fa" \in DOMAIN sessions[c] /\ sessions[c]["2fa"] = TRUE)

C27_Original ==
    \A i \in DOMAIN database.users :
       (database.users[i].otp # "" /\ i \in DOMAIN database'.users)
       => database'.users[i].otp = database.users[i].otp

\* C27 as stated: no request changes the otpKey of a user whose otpKey is
\* not empty, whatever the interleaving of the requests of several sessions
\* that hold the user's id.
C27_OtpKeyWrittenOnce == [][C27_Original]_vars

\* C28 as stated: when the login view has served a POST, the session holds
\* no id of a banned user, whatever the user's otpKey and the form.
C28_BannedLoginSetsNoId ==
    (/\ last.endpoint = "auth._auth_login" /\ last.method = "POST" /\ last.ran
     /\ KnownUser(sessions[last.client], database))
    => GetUser(database, sessions[last.client]["id"]).accessLevel # -1

C29_Original(c) ==
    (/\ Serves(c)
     /\ last'.endpoint = "auth._auth_password_reset" /\ last'.method = "POST"
     /\ last'.ran
     /\ BeforeRequest(sessions[c], "auth._auth_password_reset", database).session
           = EmptySession)
    => \A form \in ResetForms : \A code \in ResetCodes :
          (/\ RequestPasswordReset(c, "POST", form, code)
           /\ ~FieldMissing(form, "email")
           /\ GetUserByEmail(database, form["email"]) # {})
          => /\ \A i \in GetUserByEmail(database, form["email"]) :
                   database'.users[i].lastOtp = code
             /\ [recipient |-> form["email"], code |-> code]
                   \in PasswordResetMail(EmptySession, "POST", form, database, code)
             /\ last'.response.kind # "error"

\* C29 as stated: a password-reset POST from an anonymous session naming a
\* registered email hands the generated code, the one stored as lastOtp, to
\* the Emailer and is answered without an HTTP error.
C29_ResetMailsCode == [][\A c \in Clients : C29_Original(c)]_vars

C30_Original(c) ==
    (/\ Serves(c) /\ last'.endpoint = "files._files_get" /\ last'.ran
     /\ CookieCheck(BeforeRequest(sessions[c], "files._files_get", database).session)
           = "Valid")
    => \A token \in Tokens :
          (/\ RequestGetFile(c, token)
           /\ \A f \in StoredFiles : f.token # token)
          => /\ last'.response = RenderError("files/file.html", "File not found")
             /\ sessions'[c] = BeforeRequest(sessions[c], "files._files_get", database).session
             /\ database' = database

\* C30 as stated: a file request of a session that passes the view's login
\* check, for a token no stored file has, is answered with the file page
\* carrying "File not found" and changes neither the session nor the users
\* table.
C30_UnknownTokenNotFound == [][\A c \in Clients : C30_Original(c)]_vars

====
